---- MODULE Spec2Model ----
(***************************************************************************)
(* Model of selfdrive/car/hyundai/interface.py (class CarInterface):      *)
(*   get_params  - static construction of the car parameters (CP)         *)
(*   __init__    - adapter construction                                   *)
(*   update      - one control cycle: canonical state and events          *)
(*   apply       - hands the cycle to the car controller, frame += 1      *)
(*                                                                         *)
(* Units: mass in grams, lengths in millimetres, centerToFront in tenths  *)
(* of a millimetre, speeds in 0.01 m/s, set speeds in km/h.               *)
(***************************************************************************)
EXTENDS Integers, Sequences, FiniteSets, TLC

VARIABLES
  cfg,              \* inputs of get_params: candidate, fingerprint, Params() keys
  pc,               \* position of the host: "get_params", "init", "update", "apply", "failed"
  CP,               \* self.CP, the car parameters returned by get_params
  CS,               \* self.CS: raw button codes, previous codes, flags, out
  CC,               \* self.CC: the car controller's fields read by update
  buttonEvents,     \* self.buttonEvents
  low_speed_alert,  \* self.low_speed_alert
  frame             \* self.frame

vars == <<cfg, pc, CP, CS, CC, buttonEvents, low_speed_alert, frame>>

----------------------------------------------------------------------------
(* Bounds of the model *)

MaxMethod == 3      \* LateralControlMethod ranges over -1..MaxMethod
MaxButton == 5      \* raw cruise-button codes 0..MaxButton
MaxModeSel == 5     \* mode selector 0..MaxModeSel
MaxFrame == 2       \* apply is called at most MaxFrame times

----------------------------------------------------------------------------
(* Program constants *)

\* selfdrive.car.hyundai.values.Buttons, as used at lines 320-326
RES_ACCEL == 1
SET_DECEL == 2
GAP_DIST == 3
CANCEL == 4

\* message ids tested against the fingerprint
ID_SAS == 688
ID_SCC == 1057
ID_FCA == 909
ID_BSM == 1419
ID_LFA == 1157
ID_LVR == 871
ID_EVGEAR == 882
ID_EMS_A == 608
ID_EMS_B == 809

STD_CARGO_G == 136000         \* STD_CARGO_KG, in grams
LowSpeedHysteresis == 84      \* .84 m/s
LaneChangeMinSpeed == 30      \* 0.3 m/s
StandstillTicks == 200
SetSpeedMargin == 2

Supported ==
  { "GENESIS", "GENESIS_G70", "GENESIS_G80", "GENESIS_G90", "SANTA_FE",
    "SONATA", "SONATA_HEV", "SONATA_LF", "SONATA_LF_TURBO", "SONATA_LF_HEV",
    "PALISADE", "AVANTE", "I30", "KONA", "KONA_HEV", "KONA_EV", "IONIQ_HEV",
    "IONIQ_EV", "GRANDEUR_IG", "GRANDEUR_IG_HEV", "GRANDEUR_IG_FL",
    "GRANDEUR_IG_FL_HEV", "VELOSTER", "NEXO", "SORENTO", "K5", "K5_HEV",
    "STINGER", "K3", "CEED", "SPORTAGE", "NIRO_HEV", "NIRO_EV", "K7",
    "K7_HEV", "SELTOS", "SOUL_EV" }

\* CarInterfaceBase.get_std_params: the record get_params starts from.
\* Numeric fields a message leaves unset read as 0; the lateral tuning union
\* starts on its first member with nothing assigned; enableCruise starts True.
StdParams ==
  [ mass |-> 0, wheelbase |-> 0, centerToFront |-> 0,
    minSteerSpeed |-> 0, enableCruise |-> TRUE,
    lateralTuning |-> [which |-> "pid", populated |-> FALSE, newKfTuned |-> FALSE] ]

----------------------------------------------------------------------------
(* get_params *)

\* lines 53-103: the lateral tuning selected by LateralControlMethod
LateralTuning(std, method, shane) ==
  IF method = 0 THEN [which |-> "pid", populated |-> TRUE, newKfTuned |-> shane]
  ELSE IF method = 1 THEN [which |-> "indi", populated |-> TRUE, newKfTuned |-> FALSE]
  ELSE IF method = 2 THEN [which |-> "lqr", populated |-> TRUE, newKfTuned |-> FALSE]
  ELSE std.lateralTuning

\* lines 108-195: the if/elif chain over candidate; no else branch
VehicleProfile(std, candidate) ==
  IF candidate = "GENESIS" THEN [mass |-> 1900000 + STD_CARGO_G, wheelbase |-> 3010]
  ELSE IF candidate = "GENESIS_G70" THEN [mass |-> 1640000 + STD_CARGO_G, wheelbase |-> 2840]
  ELSE IF candidate = "GENESIS_G80" THEN [mass |-> 1855000 + STD_CARGO_G, wheelbase |-> 3010]
  ELSE IF candidate = "GENESIS_G90" THEN [mass |-> 2200000, wheelbase |-> 3150]
  ELSE IF candidate = "SANTA_FE" THEN [mass |-> 1694000 + STD_CARGO_G, wheelbase |-> 2765]
  ELSE IF candidate \in {"SONATA", "SONATA_HEV"} THEN [mass |-> 1513000 + STD_CARGO_G, wheelbase |-> 2840]
  ELSE IF candidate = "SONATA_LF" THEN [mass |-> 2039803, wheelbase |-> 2804]  \* 4497 lb
  ELSE IF candidate = "SONATA_LF_TURBO" THEN [mass |-> 1470000 + STD_CARGO_G, wheelbase |-> 2805]
  ELSE IF candidate = "SONATA_LF_HEV" THEN [mass |-> 1595000 + STD_CARGO_G, wheelbase |-> 2805]
  ELSE IF candidate = "PALISADE" THEN [mass |-> 1999000 + STD_CARGO_G, wheelbase |-> 2900]
  ELSE IF candidate = "AVANTE" THEN [mass |-> 1245000 + STD_CARGO_G, wheelbase |-> 2720]
  ELSE IF candidate = "I30" THEN [mass |-> 1380000 + STD_CARGO_G, wheelbase |-> 2650]
  ELSE IF candidate = "KONA" THEN [mass |-> 1275000 + STD_CARGO_G, wheelbase |-> 2700]
  ELSE IF candidate \in {"KONA_HEV", "KONA_EV"} THEN [mass |-> 1425000 + STD_CARGO_G, wheelbase |-> 2600]
  ELSE IF candidate \in {"IONIQ_HEV", "IONIQ_EV"} THEN [mass |-> 1490000 + STD_CARGO_G, wheelbase |-> 2700]
  ELSE IF candidate \in {"GRANDEUR_IG", "GRANDEUR_IG_HEV"} THEN [mass |-> 1675000 + STD_CARGO_G, wheelbase |-> 2845]
  ELSE IF candidate \in {"GRANDEUR_IG_FL", "GRANDEUR_IG_FL_HEV"} THEN [mass |-> 1725000 + STD_CARGO_G, wheelbase |-> 2885]
  ELSE IF candidate = "VELOSTER" THEN [mass |-> 1613880, wheelbase |-> 2800]   \* 3558 lb
  ELSE IF candidate = "NEXO" THEN [mass |-> 1885000 + STD_CARGO_G, wheelbase |-> 2790]
  ELSE IF candidate = "SORENTO" THEN [mass |-> 1985000 + STD_CARGO_G, wheelbase |-> 2780]
  ELSE IF candidate \in {"K5", "K5_HEV"} THEN [mass |-> 1600000 + STD_CARGO_G, wheelbase |-> 2805]
  ELSE IF candidate = "STINGER" THEN [mass |-> 1825000 + STD_CARGO_G, wheelbase |-> 2906]
  ELSE IF candidate = "K3" THEN [mass |-> 1260000 + STD_CARGO_G, wheelbase |-> 2700]
  ELSE IF candidate = "CEED" THEN [mass |-> 1350000 + STD_CARGO_G, wheelbase |-> 2650]
  ELSE IF candidate = "SPORTAGE" THEN [mass |-> 1985000 + STD_CARGO_G, wheelbase |-> 2780]
  ELSE IF candidate \in {"NIRO_HEV", "NIRO_EV"} THEN [mass |-> 1737000 + STD_CARGO_G, wheelbase |-> 2700]
  ELSE IF candidate \in {"K7", "K7_HEV"} THEN [mass |-> 1680000 + STD_CARGO_G, wheelbase |-> 2855]
  ELSE IF candidate = "SELTOS" THEN [mass |-> 1310000 + STD_CARGO_G, wheelbase |-> 2600]
  ELSE IF candidate = "SOUL_EV" THEN [mass |-> 1375000 + STD_CARGO_G, wheelbase |-> 2600]
  ELSE [mass |-> std.mass, wheelbase |-> std.wheelbase]

\* lines 198 and 255: ret.centerToFront = ret.wheelbase * 0.4 (tenths of a mm)
CenterToFront(wheelbase) == wheelbase * 4

\* line 202: scale_rot_inertia(mass, wheelbase); the scaling function is an
\* imported helper, kept as the application to its arguments
RotationalInertia(mass, wheelbase) == <<"scale_rot_inertia", mass, wheelbase>>

\* lines 206-207: scale_tire_stiffness(mass, wheelbase, centerToFront, factor)
TireStiffness(mass, wheelbase, ctf) == <<"scale_tire_stiffness", mass, wheelbase, ctf>>

\* line 240
MdpsBus(harness) == IF harness THEN 1 ELSE 0

\* line 241
SasBus(fp, mdpsBus) == IF ID_SAS \in fp[0] \/ ~(mdpsBus = 1) THEN 0 ELSE 1

\* line 242: 2 if (1057 in fingerprint[2] and False) else 0 if 1057 in fingerprint[0] else -1
SccBusProbe(fp) ==
  IF ID_SCC \in fp[2] /\ FALSE THEN 2 ELSE IF ID_SCC \in fp[0] THEN 0 ELSE -1

SccBusNoOverride(fp) == SccBusProbe(fp)

\* lines 242 and 260: the probe, then ret.sccBus = -1
SccBus(fp) == LET probed == SccBusProbe(fp) IN -1

\* line 243
FcaBusProbe(fp) ==
  IF ID_FCA \in fp[0] THEN 0 ELSE IF ID_FCA \in fp[2] THEN 2 ELSE -1

FcaBusNoOverride(fp) == FcaBusProbe(fp)

\* lines 243, 263-264: the probe, then 0 is replaced by -1
FcaBus(fp) == IF FcaBusProbe(fp) = 0 THEN -1 ELSE FcaBusProbe(fp)

\* Python truth value of an int
Truthy(n) == n # 0

\* lines 244-248; line 248 parses as (608) and (809 in fingerprint[0])
FeatureFlags(fp) ==
  [ bsmAvailable |-> ID_BSM \in fp[0],
    lfaAvailable |-> ID_LFA \in fp[2],
    lvrAvailable |-> ID_LVR \in fp[0],
    evgearAvailable |-> ID_EVGEAR \in fp[0],
    emsAvailable |-> (Truthy(ID_EMS_A) /\ ID_EMS_B \in fp[0]) ]

\* lines 252-253
MinSteerSpeed(std, mdpsBus) == IF mdpsBus = 1 THEN 0 ELSE std.minSteerSpeed

EnableCruiseStd(std) == std.enableCruise

\* line 261: ret.enableCruise = False
EnableCruise(std) == FALSE

\* lines 24-267: the record get_params returns
Params(c) ==
  LET std == StdParams
      prof == VehicleProfile(std, c.candidate)
      mdps == MdpsBus(c.MdpsHarness)
      flags == FeatureFlags(c.fingerprint)
  IN [ carName |-> "hyundai",
       safetyModel |-> "hyundaiCommunityVisionOnly",
       lateralTuning |-> LateralTuning(std, c.LateralControlMethod, c.ShaneFeedForward),
       mass |-> prof.mass,
       wheelbase |-> prof.wheelbase,
       centerToFront |-> CenterToFront(prof.wheelbase),
       rotationalInertia |-> RotationalInertia(prof.mass, prof.wheelbase),
       tireStiffness |-> TireStiffness(prof.mass, prof.wheelbase, CenterToFront(prof.wheelbase)),
       enableBsm |-> ID_BSM \in c.fingerprint[0],
       mdpsBus |-> mdps,
       sasBus |-> SasBus(c.fingerprint, mdps),
       sccBus |-> SccBus(c.fingerprint),
       fcaBus |-> FcaBus(c.fingerprint),
       bsmAvailable |-> flags.bsmAvailable,
       lfaAvailable |-> flags.lfaAvailable,
       lvrAvailable |-> flags.lvrAvailable,
       evgearAvailable |-> flags.evgearAvailable,
       emsAvailable |-> flags.emsAvailable,
       minSteerSpeed |-> MinSteerSpeed(std, mdps),
       openpilotLongitudinalControl |-> TRUE,
       enableCruise |-> EnableCruise(std),
       radarOffCan |-> TRUE,
       standStill |-> FALSE,
       vCruisekph |-> 0 ]


\* the imported scaling helpers divide by the wheelbase they are given; their
\* bodies are outside this file, so a zero wheelbase admits both outcomes
ScaleOutcomes(wheelbase) ==
  IF wheelbase = 0 THEN {"returned", "ZeroDivisionError"} ELSE {"returned"}

NoParams == [carName |-> "none", error |-> "none"]

----------------------------------------------------------------------------
(* __init__ *)

\* CarStateBase construction: no button held, out is an empty CarState message
FreshCS ==
  [ cruise_buttons |-> 0, prev_cruise_buttons |-> 0,
    cruise_main_button |-> 0, prev_cruise_main_button |-> 0,
    parkBrake |-> FALSE, brakeUnavailable |-> FALSE,
    out |-> [ vEgo |-> 0, brakePressed |-> FALSE, standstill |-> FALSE,
              modeSel |-> 0, canValid |-> FALSE, steeringRateLimited |-> FALSE,
              buttonEvents |-> <<>>, events |-> {} ] ]

\* a car controller whose timers are idle
IdleCC ==
  [ enabled |-> FALSE, usestockscc |-> FALSE, steer_rate_limited |-> FALSE,
    lanechange_manual_timer |-> 0, emergency_manual_timer |-> 0,
    mode_change_timer |-> 0, acc_standstill_timer |-> 0,
    setspeed |-> 0, clu11_speed |-> 0 ]

----------------------------------------------------------------------------
(* update *)

\* CarState.update: the codes of the last cycle become the previous codes and
\* the decoded signals of this cycle are stored
CSUpdate(cs, i) ==
  [ cs EXCEPT !.prev_cruise_buttons = cs.cruise_buttons,
              !.cruise_buttons = i.cruise_buttons,
              !.prev_cruise_main_button = cs.cruise_main_button,
              !.cruise_main_button = i.cruise_main_button,
              !.parkBrake = i.parkBrake,
              !.brakeUnavailable = i.brakeUnavailable ]

\* lines 270-274, 279: the CarState message of this cycle before events
RetOf(i, cc) ==
  [ vEgo |-> i.vEgo, brakePressed |-> i.brakePressed, standstill |-> i.standstill,
    modeSel |-> i.modeSel,
    canValid |-> (i.cp_valid /\ i.cp2_valid /\ i.cam_valid),
    steeringRateLimited |-> cc.steer_rate_limited ]

LowSpeedAlertRearm(alert, vEgo, minSteerSpeed, enabled) ==
  IF vEgo > minSteerSpeed + LowSpeedHysteresis \/ ~enabled THEN FALSE
  ELSE IF vEgo < minSteerSpeed + LowSpeedHysteresis THEN TRUE ELSE alert

\* lines 282-283
LowSpeedAlertNext(alert, vEgo, minSteerSpeed, enabled) ==
  IF vEgo > minSteerSpeed + LowSpeedHysteresis \/ ~enabled THEN FALSE ELSE alert

\* lines 285-286
EnableCruiseNext(cp, cc) == IF cp.sccBus = 2 THEN cc.usestockscc ELSE cp.enableCruise

\* lines 290-297
TimerEvents(cs, cc, vEgo) ==
     (IF cs.parkBrake /\ ~cc.usestockscc THEN {"parkBrake"} ELSE {})
  \cup (IF cs.brakeUnavailable /\ ~cc.usestockscc THEN {"brakeUnavailable"} ELSE {})
  \cup (IF Truthy(cc.lanechange_manual_timer) /\ vEgo > LaneChangeMinSpeed
          THEN {"laneChangeManual"} ELSE {})
  \cup (IF Truthy(cc.emergency_manual_timer) THEN {"emgButtonManual"} ELSE {})

\* lines 298-307; modeSel is read from self.CS.out, the state returned by the
\* previous call of update (line 361 stores this cycle's only at the end)
ModeChangeEvents(timer, modeSel) ==
  IF Truthy(timer) /\ modeSel = 0 THEN {"modeChangeOpenpilot"}
  ELSE IF Truthy(timer) /\ modeSel = 1 THEN {"modeChangeDistcurv"}
  ELSE IF Truthy(timer) /\ modeSel = 2 THEN {"modeChangeDistance"}
  ELSE IF Truthy(timer) /\ modeSel = 3 THEN {"modeChangeOneway"}
  ELSE IF Truthy(timer) /\ modeSel = 4 THEN {"modeChangeMaponly"}
  ELSE {}

\* lines 308-312
StandStill(cc) == cc.acc_standstill_timer >= StandstillTicks

\* lines 320-329
ButtonType(but) ==
  IF but = RES_ACCEL THEN "accelCruise"
  ELSE IF but = SET_DECEL THEN "decelCruise"
  ELSE IF but = GAP_DIST THEN "gapAdjustCruise"
  ELSE IF but = CANCEL THEN "cancel"
  ELSE "unknown"

CruiseEdge(cs) == cs.cruise_buttons # cs.prev_cruise_buttons
MainEdge(cs) == cs.cruise_main_button # cs.prev_cruise_main_button

\* lines 315-330 and 333-337: the local list buttonEvents of this cycle
LocalButtonEvents(cs) ==
     (IF CruiseEdge(cs)
        THEN << [type |-> ButtonType(cs.cruise_buttons), pressed |-> cs.cruise_buttons # 0] >>
        ELSE << >>)
  \o (IF MainEdge(cs)
        THEN << [type |-> "altButton3", pressed |-> Truthy(cs.cruise_main_button)] >>
        ELSE << >>)

RetainedAppend(old, cs) ==
  IF CruiseEdge(cs) \/ MainEdge(cs) THEN old \o LocalButtonEvents(cs) ELSE old

\* lines 331 and 338: self.buttonEvents is rebound to the local list in a cycle
\* with an edge and left alone otherwise
RetainedButtonEvents(old, cs) ==
  IF CruiseEdge(cs) \/ MainEdge(cs) THEN LocalButtonEvents(cs) ELSE old

\* lines 345-355: the events one button event adds
PressEvents(b, ret, cc) ==
     (IF b.type = "decelCruise" /\ b.pressed /\ (~ret.brakePressed \/ ret.standstill)
        THEN {"buttonEnable", "pcmEnable"} ELSE {})
  \cup (IF b.type = "accelCruise" /\ b.pressed
           /\ (cc.setspeed > cc.clu11_speed - SetSpeedMargin \/ ret.standstill \/ cc.usestockscc)
        THEN {"buttonEnable", "pcmEnable"} ELSE {})
  \cup (IF b.type = "cancel" /\ b.pressed
        THEN {"buttonCancel", "pcmDisable"} ELSE {})

ButtonPressEventsLocal(enableCruise, list, cs, ret, cc) ==
  IF ~enableCruise
    THEN UNION { PressEvents(LocalButtonEvents(cs)[k], ret, cc) :
                   k \in 1..Len(LocalButtonEvents(cs)) }
    ELSE {}

\* lines 343-355: the loop over self.buttonEvents
ButtonPressEvents(enableCruise, list, cs, ret, cc) ==
  IF ~enableCruise
    THEN UNION { PressEvents(list[k], ret, cc) : k \in 1..Len(list) }
    ELSE {}


----------------------------------------------------------------------------
(* Actions *)

\* get_params (lines 24-267), called by the host with the probed fingerprint
GetParams ==
  /\ pc = "get_params"
  /\ \E outcome \in ScaleOutcomes(VehicleProfile(StdParams, cfg.candidate).wheelbase) :
       IF outcome = "returned"
         THEN CP' = Params(cfg) /\ pc' = "init"
         ELSE CP' = [carName |-> "none", error |-> outcome] /\ pc' = "failed"
  /\ UNCHANGED <<cfg, CS, CC, buttonEvents, low_speed_alert, frame>>

\* __init__ (lines 14-17); the car controller starts in one of the states cc0
Construct(cc0) ==
  /\ pc = "init"
  /\ CS' = FreshCS
  /\ CC' = cc0
  /\ buttonEvents' = << >>
  /\ low_speed_alert' = FALSE
  /\ frame' = 0
  /\ pc' = "update"
  /\ UNCHANGED <<cfg, CP>>

\* update (lines 269-362) on the decoded signals i of this cycle
Update(i) ==
  /\ pc = "update"
  /\ LET cs1 == CSUpdate(CS, i)
         ret == RetOf(i, CC)
         enableCruise == EnableCruiseNext(CP, CC)
         retained == RetainedButtonEvents(buttonEvents, cs1)
         events == i.common
                   \cup TimerEvents(cs1, CC, ret.vEgo)
                   \cup ModeChangeEvents(CC.mode_change_timer, CS.out.modeSel)
                   \cup ButtonPressEvents(enableCruise, retained, cs1, ret, CC)
     IN /\ low_speed_alert' =
             LowSpeedAlertNext(low_speed_alert, ret.vEgo, CP.minSteerSpeed, CC.enabled)
        /\ CP' = [CP EXCEPT !.enableCruise = enableCruise,
                            !.standStill = StandStill(CC),
                            !.vCruisekph = CC.setspeed]
        /\ buttonEvents' = retained
        /\ CS' = [cs1 EXCEPT !.out =
                    [ vEgo |-> ret.vEgo, brakePressed |-> ret.brakePressed,
                      standstill |-> ret.standstill, modeSel |-> ret.modeSel,
                      canValid |-> ret.canValid,
                      steeringRateLimited |-> ret.steeringRateLimited,
                      buttonEvents |-> retained, events |-> events ]]
  /\ pc' = "apply"
  /\ UNCHANGED <<cfg, CC, frame>>

\* apply (lines 364-371): CC.update leaves the controller in a state c
Apply(c) ==
  /\ pc = "apply"
  /\ frame < MaxFrame
  /\ CC' = c
  /\ frame' = frame + 1
  /\ pc' = "update"
  /\ UNCHANGED <<cfg, CP, CS, buttonEvents, low_speed_alert>>

\* the collaborator that owns setting the low-speed alert raises it between cycles
RaiseLowSpeedAlert ==
  /\ pc = "update"
  /\ ~low_speed_alert
  /\ low_speed_alert' = TRUE
  /\ UNCHANGED <<cfg, pc, CP, CS, CC, buttonEvents, frame>>

----------------------------------------------------------------------------
(* Input sets *)

Fingerprint(b0, b1, b2) == [b \in 0..2 |-> IF b = 0 THEN b0 ELSE IF b = 1 THEN b1 ELSE b2]

Ids0 == {ID_SAS, ID_SCC, ID_FCA, ID_BSM, ID_LVR, ID_EVGEAR, ID_EMS_A, ID_EMS_B, ID_LFA}
Ids2 == {ID_SCC, ID_FCA, ID_LFA, ID_BSM}

Methods == (0 - 1)..MaxMethod

Cfg(cands, fps, methods, bools) ==
  [ candidate : cands, fingerprint : fps, LateralControlMethod : methods,
    ShaneFeedForward : bools, MdpsHarness : bools ]

\* every vehicle and control method, on an empty fingerprint
CfgVehicle ==
  Cfg(Supported \cup {"UNLISTED"}, {Fingerprint({}, {}, {})}, Methods, BOOLEAN)

\* every fingerprint over the probed ids, for one vehicle
CfgBus ==
  Cfg({"GENESIS"},
      {Fingerprint(b0, {}, b2) : b0 \in SUBSET Ids0, b2 \in SUBSET Ids2}
        \cup {Fingerprint({}, {ID_SCC, ID_FCA}, {})},
      {0}, {FALSE})
  \cup Cfg({"GENESIS"}, {Fingerprint({}, {}, {})}, {0}, {TRUE})

\* the cars driven through cycles: the cruise-control id on bus 0, bus 2, both, neither
CfgDrive ==
  Cfg({"GENESIS"},
      {Fingerprint(b0, {}, b2) : b0 \in SUBSET {ID_SCC}, b2 \in SUBSET {ID_SCC}},
      {0}, {FALSE})

CfgOne == Cfg({"GENESIS"}, {Fingerprint({}, {}, {})}, {0}, {FALSE})

\* the cruise-control and collision ids on any of the three buses, with and
\* without the harness
CfgLife ==
  Cfg({"GENESIS"},
      {Fingerprint(b0, b1, b2) : b0 \in SUBSET {ID_SCC, ID_FCA},
                                 b1 \in SUBSET {ID_SCC}, b2 \in SUBSET {ID_SCC, ID_FCA}},
      {0}, {FALSE})
  \cup Cfg({"GENESIS"},
      {Fingerprint(b0, {}, b2) : b0 \in SUBSET {ID_SCC}, b2 \in SUBSET {ID_SCC}},
      {0}, {TRUE})

Buttons == 0..MaxButton
ModeSels == 0..MaxModeSel

QuietInput ==
  [ cruise_buttons |-> 0, cruise_main_button |-> 0, vEgo |-> 0,
    brakePressed |-> FALSE, standstill |-> FALSE, modeSel |-> 0,
    parkBrake |-> FALSE, brakeUnavailable |-> FALSE,
    cp_valid |-> TRUE, cp2_valid |-> TRUE, cam_valid |-> TRUE, common |-> {} ]

\* button scenarios: every code, brake, standstill and two speeds
InputsButtons ==
  { [QuietInput EXCEPT !.cruise_buttons = b, !.cruise_main_button = m,
                       !.brakePressed = br, !.standstill = st, !.vEgo = v] :
      b \in Buttons, m \in 0..1, br \in BOOLEAN, st \in BOOLEAN, v \in {0, 2000} }

\* a release, a cancel press and a resume press
InputsLife ==
  { [QuietInput EXCEPT !.cruise_buttons = b, !.vEgo = v] :
      b \in {0, RES_ACCEL, CANCEL}, v \in {0, 2000} }

\* mode scenarios: every mode selector
InputsMode == { [QuietInput EXCEPT !.modeSel = m] : m \in ModeSels }

\* speed scenarios around the two thresholds
InputsSpeed == { [QuietInput EXCEPT !.vEgo = v] : v \in {0, 30, 31, 84, 85} }

\* parser and brake flags, and events of create_common_events
InputsFlags ==
  { [QuietInput EXCEPT !.parkBrake = p, !.brakeUnavailable = u, !.common = e] :
      p \in BOOLEAN, u \in BOOLEAN, e \in {{}, {"pcmDisable"}, {"doorOpen"}} }
  \cup { [QuietInput EXCEPT !.cp_valid = a, !.cp2_valid = b, !.cam_valid = c] :
      a \in BOOLEAN, b \in BOOLEAN, c \in BOOLEAN }

ActiveCC == [IdleCC EXCEPT !.enabled = TRUE, !.setspeed = 30, !.clu11_speed = 32]

\* every timer running, stock cruise in use, controller disabled
BusyCC ==
  [ActiveCC EXCEPT !.enabled = FALSE, !.usestockscc = TRUE,
                   !.lanechange_manual_timer = 1, !.emergency_manual_timer = 1,
                   !.mode_change_timer = 1, !.acc_standstill_timer = StandstillTicks]

\* controller states for the button scenarios
CCButtons ==
  { [ActiveCC EXCEPT !.usestockscc = u, !.clu11_speed = c] :
      u \in BOOLEAN, c \in {31, 32} }

\* controller states for the mode scenarios
CCMode == { [ActiveCC EXCEPT !.mode_change_timer = t] : t \in {0, 1, 50} }

\* controller states for the timers and the enabled flag
CCTimers ==
  { [ActiveCC EXCEPT !.enabled = e, !.acc_standstill_timer = a] :
      e \in BOOLEAN, a \in {0, 199, 200} }
  \cup { [ActiveCC EXCEPT !.lanechange_manual_timer = l, !.emergency_manual_timer = m,
                          !.steer_rate_limited = s] :
      l \in {0, 1}, m \in {0, 1}, s \in BOOLEAN }

----------------------------------------------------------------------------
(* Specifications *)

InitWith(cfgs) ==
  /\ cfg \in cfgs
  /\ pc = "get_params"
  /\ CP = NoParams
  /\ CS = FreshCS
  /\ CC = IdleCC
  /\ buttonEvents = << >>
  /\ low_speed_alert = FALSE
  /\ frame = 0

\* get_params as a function of its inputs
InitParams == InitWith(CfgVehicle \cup CfgBus)
NextParams == GetParams
SpecParams == InitParams /\ [][NextParams]_vars

\* the adapter driven through cycles of button input
Init == InitWith(CfgOne)
Next ==
  \/ GetParams
  \/ \E c \in CCButtons \cup {IdleCC} : Construct(c)
  \/ \E i \in InputsButtons : Update(i)
  \/ \E c \in CCButtons \cup {BusyCC} : Apply(c)
Spec == Init /\ [][Next]_vars

\* every fingerprint over the cruise-control and collision ids, then a few cycles
InitLife == InitWith(CfgLife)
NextLife ==
  \/ GetParams
  \/ \E c \in {IdleCC, ActiveCC} : Construct(c)
  \/ \E i \in InputsLife : Update(i)
  \/ \E c \in {ActiveCC, BusyCC} : Apply(c)
SpecLife == InitLife /\ [][NextLife]_vars

\* cycles of mode-selector input
InitMode == InitWith(CfgDrive)
NextMode ==
  \/ GetParams
  \/ \E c \in CCMode \cup {IdleCC} : Construct(c)
  \/ \E i \in InputsMode \cup InputsFlags : Update(i)
  \/ \E c \in CCMode \cup CCTimers : Apply(c)
SpecMode == InitMode /\ [][NextMode]_vars

\* cycles of speed input, with the low-speed alert raised from outside
InitLatch == InitWith(CfgDrive \cup Cfg({"GENESIS"}, {Fingerprint({}, {}, {})}, {0}, {TRUE}))
NextLatch ==
  \/ GetParams
  \/ \E c \in CCTimers \cup {IdleCC} : Construct(c)
  \/ \E i \in InputsSpeed : Update(i)
  \/ \E c \in CCTimers : Apply(c)
  \/ RaiseLowSpeedAlert
SpecLatch == InitLatch /\ [][NextLatch]_vars


----------------------------------------------------------------------------
(* Properties *)

Constructed == pc \in {"update", "apply"}
Returned == pc \in {"init", "update", "apply"}
AfterGetParams == pc # "get_params"
AfterUpdate == pc = "apply"
UpdateStep == pc = "update" /\ pc' = "apply"
Events == CS.out.events
FP == cfg.fingerprint

\* C1: for every fingerprint and harness toggle the parameters get_params
\* returns have sccBus = -1, and sccBus is still -1 after any update/apply cycles
C1_SccBusAbsent == Returned => CP.sccBus = 0 - 1

C1_Witness ==
  /\ pc = "update" /\ frame >= 2
  /\ ID_SCC \in FP[0] /\ ID_SCC \in FP[2]
  /\ CP.sccBus = 0 - 1

\* C2 (as claimed): get_params returns exactly one populated variant (PID for 0,
\* INDI for 1, LQR for 2) if and only if LateralControlMethod is 0, 1 or 2; for
\* any other value it fails with a configuration error and returns nothing
C2_SelectOrFail ==
  (AfterGetParams /\ cfg.candidate \in Supported) =>
     IF cfg.LateralControlMethod \in {0, 1, 2}
       THEN /\ Returned
            /\ CP.lateralTuning.populated
            /\ CP.lateralTuning.which =
                 (IF cfg.LateralControlMethod = 0 THEN "pid"
                  ELSE IF cfg.LateralControlMethod = 1 THEN "indi" ELSE "lqr")
       ELSE pc = "failed" /\ CP.error = "ConfigurationError"

\* C3 (as claimed): with a vehicle identifier that matches no entry of the chain
\* get_params fails with UnknownVehicle and derives nothing from default values
C3_UnknownVehicleFails ==
  (AfterGetParams /\ cfg.candidate \notin Supported) =>
     pc = "failed" /\ CP.error = "UnknownVehicle"

\* C4: a cycle whose cruise-button code differs from the previous code and is
\* CANCEL has buttonCancel and pcmDisable among its events, whatever the speed,
\* brake, standstill, usestockscc and the controller's timers
C4_CancelEdge ==
  (Constructed /\ CS.cruise_buttons # CS.prev_cruise_buttons /\ CS.cruise_buttons = CANCEL)
     => {"buttonCancel", "pcmDisable"} \subseteq Events

C4_Witness ==
  /\ AfterUpdate /\ frame >= 1
  /\ CS.prev_cruise_buttons = SET_DECEL /\ CS.cruise_buttons = CANCEL
  /\ CS.out.brakePressed /\ ~CS.out.standstill /\ CS.out.vEgo = 2000
  /\ CC.usestockscc /\ Truthy(CC.mode_change_timer)
  /\ {"buttonCancel", "pcmDisable"} \subseteq Events

ModeEvents ==
  {"modeChangeOpenpilot", "modeChangeDistcurv", "modeChangeDistance",
   "modeChangeOneway", "modeChangeMaponly"}

ModeEventOf(m) ==
  IF m = 0 THEN "modeChangeOpenpilot"
  ELSE IF m = 1 THEN "modeChangeDistcurv"
  ELSE IF m = 2 THEN "modeChangeDistance"
  ELSE IF m = 3 THEN "modeChangeOneway"
  ELSE "modeChangeMaponly"

\* C5 (as claimed): a cycle emits at most one mode-change event; with the timer
\* active and the mode selector of the state this cycle returns in 0..4 it emits
\* exactly the event of that selector, and none with the timer inactive
C5_ModeEventOfThisCycle ==
  AfterUpdate =>
    /\ Cardinality(Events \cap ModeEvents) <= 1
    /\ (Truthy(CC.mode_change_timer) /\ CS.out.modeSel \in 0..4)
          => Events \cap ModeEvents = {ModeEventOf(CS.out.modeSel)}
    /\ ~Truthy(CC.mode_change_timer) => Events \cap ModeEvents = {}

\* C6: under update the low-speed alert is a one-way latch: a cycle with speed
\* above minSteerSpeed + 0.84 or with the controller disabled leaves it false,
\* and an update never turns a false alert true
C6_OneWayLatch ==
  [][ UpdateStep =>
        /\ (CS'.out.vEgo > CP.minSteerSpeed + LowSpeedHysteresis \/ ~CC.enabled)
              => ~low_speed_alert'
        /\ ~low_speed_alert => ~low_speed_alert' ]_vars

C6_Witness ==
  /\ AfterUpdate /\ frame >= 2
  /\ ~low_speed_alert /\ CS.out.vEgo = 0 /\ CC.enabled

\* C7: fcaBus is 2 or -1; it is 2 exactly when id 909 is seen on bus 2 and not
\* on bus 0, and -1 for every other fingerprint
C7_FcaBus ==
  Returned =>
    /\ CP.fcaBus \in {2, 0 - 1}
    /\ CP.fcaBus = 2 <=> (ID_FCA \in FP[2] /\ ID_FCA \notin FP[0])

C7_Witness ==
  Returned /\ ID_FCA \in FP[0] /\ ID_FCA \in FP[2] /\ CP.fcaBus = 0 - 1

\* C8 (as claimed): each feature flag is true exactly when every id its check
\* names is on the bus it checks; emsAvailable needs both 608 and 809 on bus 0
C8_FlagsNeedEveryId ==
  Returned =>
    /\ CP.bsmAvailable <=> ID_BSM \in FP[0]
    /\ CP.lfaAvailable <=> ID_LFA \in FP[2]
    /\ CP.lvrAvailable <=> ID_LVR \in FP[0]
    /\ CP.evgearAvailable <=> ID_EVGEAR \in FP[0]
    /\ CP.emsAvailable <=> (ID_EMS_A \in FP[0] /\ ID_EMS_B \in FP[0])

CruiseEvent(code) ==
  [ type |-> IF code = RES_ACCEL THEN "accelCruise"
             ELSE IF code = SET_DECEL THEN "decelCruise"
             ELSE IF code = GAP_DIST THEN "gapAdjustCruise"
             ELSE IF code = CANCEL THEN "cancel" ELSE "unknown",
    pressed |-> code # 0 ]

MainEvent(code) == [type |-> "altButton3", pressed |-> code # 0]

\* C9: the button-event list of the returned state is the retained list; a cycle
\* with an edge replaces it by that cycle's cruise-button event (if the cruise
\* code changed) followed by its altButton3 event (if the main code changed),
\* and a cycle without an edge leaves it as it was
C9_LastEdgeList ==
  [][ UpdateStep =>
        /\ CS'.out.buttonEvents = buttonEvents'
        /\ buttonEvents' =
             IF CS'.cruise_buttons # CS.cruise_buttons
               THEN IF CS'.cruise_main_button # CS.cruise_main_button
                      THEN << CruiseEvent(CS'.cruise_buttons), MainEvent(CS'.cruise_main_button) >>
                      ELSE << CruiseEvent(CS'.cruise_buttons) >>
               ELSE IF CS'.cruise_main_button # CS.cruise_main_button
                      THEN << MainEvent(CS'.cruise_main_button) >>
                      ELSE buttonEvents ]_vars

C9_Witness ==
  /\ AfterUpdate
  /\ CS.cruise_buttons = CANCEL /\ CS.prev_cruise_buttons = CANCEL
  /\ CS.cruise_main_button = 1 /\ CS.prev_cruise_main_button = 0
  /\ CS.out.buttonEvents = << MainEvent(1) >>

Holds(type) ==
  \E k \in 1..Len(buttonEvents) : buttonEvents[k] = [type |-> type, pressed |-> TRUE]

NoEdge ==
  /\ CS.cruise_buttons = CS.prev_cruise_buttons
  /\ CS.cruise_main_button = CS.prev_cruise_main_button

\* C10: a cycle without a button edge derives enable/disable from the retained
\* list: a retained pressed cancel emits buttonCancel and pcmDisable again, and
\* a retained pressed decelCruise or accelCruise emits buttonEnable and
\* pcmEnable whenever its guard holds in that cycle
C10_RetainedListDrives ==
  (AfterUpdate /\ NoEdge) =>
    /\ Holds("cancel") => {"buttonCancel", "pcmDisable"} \subseteq Events
    /\ (Holds("decelCruise") /\ (~CS.out.brakePressed \/ CS.out.standstill))
          => {"buttonEnable", "pcmEnable"} \subseteq Events
    /\ (Holds("accelCruise")
          /\ (CC.setspeed > CC.clu11_speed - 2 \/ CS.out.standstill \/ CC.usestockscc))
          => {"buttonEnable", "pcmEnable"} \subseteq Events

C10_Witness ==
  /\ AfterUpdate /\ NoEdge /\ frame >= 1
  /\ Holds("cancel")
  /\ {"buttonCancel", "pcmDisable"} \subseteq Events

====
